---- MODULE Spec2Model ----
(***************************************************************************)
(* LocalVibes backend (src/backend.py): the in-memory jobs table, the      *)
(* background worker thread of each job, and the HTTP handlers that        *)
(* create, poll, cancel and archive jobs.                                  *)
(*                                                                         *)
(* Strings that the code inspects character by character (URLs, titles,    *)
(* artists, batch names, paths) are sequences of one-character strings.    *)
(* Every dict created by download() is a cell of `recs`; the jobs table    *)
(* and each worker's local `job` hold references (indices) into it, so a   *)
(* table entry that is overwritten leaves the old dict alive for the       *)
(* worker that already holds it.  A worker advances one source statement   *)
(* per step; a request handler runs as one step.                           *)
(***************************************************************************)
EXTENDS Integers, Sequences, FiniteSets, TLC

VARIABLES jobs, recs, threads, fs, cancelAt

vars == <<jobs, recs, threads, fs, cancelAt>>

\* ---------------------------------------------------------------- bounds
\* Number of POST /download calls that create a job.
MaxJobs == 2
\* Longest track list the resolver returns.
MaxTracks == 2
\* Size of the identifier space str(uuid.uuid4())[:8] draws from.
NumIds == 2

JobIds == 1..NumIds

\* ---------------------------------------------------------------- strings
Hostile == {"\\", "/", "*", "?", ":", "\"", "<", ">", "|"}

RECURSIVE Strip(_)
Strip(s) ==
    IF s = <<>> THEN s
    ELSE IF Head(s) = " " THEN Strip(Tail(s))
    ELSE IF s[Len(s)] = " " THEN Strip(SubSeq(s, 1, Len(s) - 1))
    ELSE s

\* safe(s): re.sub(r'[\\/*?:"<>|]', "_", str(s)).strip()
safe(s) == Strip([k \in 1..Len(s) |-> IF s[k] \in Hostile THEN "_" ELSE s[k]])

\* needle in url
Contains(url, needle) ==
    \E k \in 1..(Len(url) - Len(needle) + 1) :
        SubSeq(url, k, k + Len(needle) - 1) = needle

SpotifyCom == <<"s","p","o","t","i","f","y",".","c","o","m">>
YoutubeCom == <<"y","o","u","t","u","b","e",".","c","o","m">>
YoutuBe    == <<"y","o","u","t","u",".","b","e">>
MusicDot   == <<"m","u","s","i","c",".">>
SlashTrack    == <<"/","t","r","a","c","k">>
SlashAlbum    == <<"/","a","l","b","u","m">>
SlashPlaylist == <<"/","p","l","a","y","l","i","s","t">>

detect_type(url) ==
    IF Contains(url, SpotifyCom \o SlashTrack) THEN "spotify_track"
    ELSE IF Contains(url, SpotifyCom \o SlashAlbum) THEN "spotify_album"
    ELSE IF Contains(url, SpotifyCom \o SlashPlaylist) THEN "spotify_playlist"
    ELSE IF Contains(url, MusicDot \o YoutubeCom \o SlashPlaylist) THEN "ytmusic_playlist"
    ELSE IF Contains(url, MusicDot \o YoutubeCom) THEN "ytmusic_track"
    ELSE IF Contains(url, YoutubeCom \o SlashPlaylist) THEN "yt_playlist"
    ELSE IF Contains(url, YoutubeCom) \/ Contains(url, YoutuBe) THEN "yt_track"
    ELSE "ValueError"

\* ---------------------------------------------------------------- resolver
\* Track descriptors the external catalogues hand back.  The first two
\* titles differ only in a character that safe() replaces.
TitleOf(k) ==
    IF k = 1 THEN <<"a", "/">>
    ELSE IF k = 2 THEN <<"a", "?">>
    ELSE [n \in 1..(k - 1) |-> "b"]

PlaylistName == <<"p", ":">>

\* _yt_playlist: the album of an entry is the playlist's name.
Track(k) ==
    [title |-> TitleOf(k), artist |-> <<"x">>, album |-> PlaylistName,
     art_url |-> "None"]

\* _yt_single: the batch is named after the title, the album is "YouTube".
SingleTrack == [Track(1) EXCEPT !.album = <<"Y", "T">>]

\* What get_tracks(url) can do: raise, or return (name, tracks).
get_tracks(url) ==
    LET kind == detect_type(url)
        single == { [raise |-> FALSE, name |-> SingleTrack.title,
                     tracks |-> <<SingleTrack>>] }
        lists  == { [raise |-> FALSE, name |-> PlaylistName,
                     tracks |-> [k \in 1..n |-> Track(k)]] : n \in 0..MaxTracks }
        error  == { [raise |-> TRUE, name |-> <<>>, tracks |-> <<>>] }
    IN  IF kind = "ValueError" THEN error
        ELSE IF kind \in {"spotify_track", "ytmusic_track", "yt_track"}
             THEN single \cup error
        ELSE lists \cup error

\* Request bodies' "url" values.
Urls ==
    { <<>>,
      <<" ">>,
      <<"e","x",".","c","o","m">>,
      YoutuBe \o <<"/","v">>,
      YoutubeCom \o SlashPlaylist }

\* ---------------------------------------------------------------- fetcher
DOWNLOAD_DIR == <<"d">>

OutDir(name) == DOWNLOAD_DIR \o <<"/">> \o safe(name)

Mp3Path(track, out_dir) ==
    out_dir \o <<"/">> \o safe(track.artist) \o <<" ", "-", " ">>
            \o safe(track.title) \o <<".mp3">>

Engine1Outcomes == {"file", "nofile", "raise"}
Engine2Outcomes == {"file", "raise"}

\* download_track with the early return of lines 183-185 left out.
FetchWithoutExistsCheck(track, out_dir, files, e1, e2) ==
    LET mp3_path == Mp3Path(track, out_dir)
    IN  IF e1 = "file"
        THEN [kind |-> "ok", path |-> mp3_path, fs |-> files \cup {mp3_path},
              engines |-> <<e1>>]
        ELSE IF e2 = "file"
        THEN [kind |-> "ok", path |-> mp3_path, fs |-> files \cup {mp3_path},
              engines |-> <<e1, e2>>]
        ELSE [kind |-> "raise", path |-> <<>>, fs |-> files,
              engines |-> <<e1, e2>>]

\* download_track returning the path after engine 2 failed as well.
FetchReturnsAfterBothFailed(track, out_dir, files, e1, e2) ==
    LET mp3_path == Mp3Path(track, out_dir)
    IN  IF mp3_path \in files
        THEN [kind |-> "ok", path |-> mp3_path, fs |-> files, engines |-> <<>>]
        ELSE IF e1 = "file"
        THEN [kind |-> "ok", path |-> mp3_path, fs |-> files \cup {mp3_path},
              engines |-> <<e1>>]
        ELSE IF e2 = "file"
        THEN [kind |-> "ok", path |-> mp3_path, fs |-> files \cup {mp3_path},
              engines |-> <<e1, e2>>]
        ELSE [kind |-> "ok", path |-> mp3_path, fs |-> files,
              engines |-> <<e1, e2>>]

\* download_track(track, out_dir) on file system `files`, with the two
\* engines behaving as e1 and e2 when they are invoked: the path exists
\* (lines 183-185), engine 1 leaves the file (lines 205-208), engine 2
\* leaves it (lines 228-231), or RuntimeError (line 234).  `engines` lists
\* the outcomes of the engines invoked, in the order of the calls.  The
\* local file system is taken to work (mkdir, exists and rename do not
\* fail).  The call is one step of the calling worker.
download_track(track, out_dir, files, e1, e2) ==
    LET mp3_path == Mp3Path(track, out_dir)
    IN  IF mp3_path \in files
        THEN [kind |-> "ok", path |-> mp3_path, fs |-> files, engines |-> <<>>]
        ELSE IF e1 = "file"
        THEN [kind |-> "ok", path |-> mp3_path, fs |-> files \cup {mp3_path},
              engines |-> <<e1>>]
        ELSE IF e2 = "file"
        THEN [kind |-> "ok", path |-> mp3_path, fs |-> files \cup {mp3_path},
              engines |-> <<e1, e2>>]
        ELSE [kind |-> "raise", path |-> <<>>, fs |-> files,
              engines |-> <<e1, e2>>]

\* ---------------------------------------------------------------- state
NoRes == [kind |-> "none", path |-> <<>>, engines |-> <<>>]

NoCancel == [begun |-> -1, entries |-> 0]

NewJob(name, tracks) ==
    [status |-> "running", name |-> name, total |-> Len(tracks), done |-> 0,
     files |-> <<>>, failed |-> <<>>, currentTrack |-> <<>>, cancelled |-> FALSE]

NewThread(job_id, tracks, out_dir) ==
    [pc |-> "L254", job |-> 0, job_id |-> job_id, tracks |-> tracks,
     out_dir |-> out_dir, i |-> 0, res |-> NoRes]

Init ==
    /\ jobs = [id \in JobIds |-> 0]
    /\ recs = <<>>
    /\ threads = <<>>
    /\ fs = {}
    /\ cancelAt = <<>>

\* ---------------------------------------------------------------- worker
\* One step of thread w of _worker(job_id, tracks, out_dir); pc names the
\* source line the thread executes next.
SetPc(w, pc) == [threads EXCEPT ![w].pc = pc]

FileEntry(track, path) ==
    [title |-> track.title, artist |-> track.artist, album |-> track.album,
     art_url |-> track.art_url, path |-> path]

FailedEntry(track) ==
    [title |-> track.title, error |-> "Both engines failed"]

\* line 254: job = jobs[job_id]
WorkerBind(w) ==
    /\ threads[w].pc = "L254"
    /\ threads' = [threads EXCEPT ![w].job = jobs[threads[w].job_id], ![w].pc = "L255"]
    /\ UNCHANGED <<jobs, recs, fs, cancelAt>>

\* line 255: job["total"] = len(tracks)
WorkerTotal(w) ==
    /\ threads[w].pc = "L255"
    /\ recs' = [recs EXCEPT ![threads[w].job].total = Len(threads[w].tracks)]
    /\ threads' = SetPc(w, "L256")
    /\ UNCHANGED <<jobs, fs, cancelAt>>

\* line 256: for i, track in enumerate(tracks); i counts the tracks taken.
WorkerFor(w) ==
    /\ threads[w].pc = "L256"
    /\ threads' = IF threads[w].i < Len(threads[w].tracks)
                  THEN [threads EXCEPT ![w].i = @ + 1, ![w].pc = "L257"]
                  ELSE SetPc(w, "L272")
    /\ UNCHANGED <<jobs, recs, fs, cancelAt>>

\* The cancel check leaving _worker instead of leaving the loop.
CancelReturns(w) ==
    /\ threads[w].pc = "L257"
    /\ threads' = IF recs[threads[w].job].cancelled
                  THEN SetPc(w, "end")
                  ELSE SetPc(w, "L258")
    /\ UNCHANGED <<jobs, recs, fs, cancelAt>>

\* line 257: if job.get("cancelled"): break
WorkerCheckCancel(w) ==
    /\ threads[w].pc = "L257"
    /\ threads' = IF recs[threads[w].job].cancelled
                  THEN SetPc(w, "L272")
                  ELSE SetPc(w, "L258")
    /\ UNCHANGED <<jobs, recs, fs, cancelAt>>

\* line 258: job["currentTrack"] = track["title"]
WorkerCurrent(w) ==
    /\ threads[w].pc = "L258"
    /\ recs' = [recs EXCEPT ![threads[w].job].currentTrack =
                                threads[w].tracks[threads[w].i].title]
    /\ threads' = SetPc(w, "L260")
    /\ UNCHANGED <<jobs, fs, cancelAt>>

\* line 260: path = download_track(track, out_dir), returning or raising
WorkerFetch(w) ==
    /\ threads[w].pc = "L260"
    /\ \E e1 \in Engine1Outcomes, e2 \in Engine2Outcomes :
         LET r == download_track(threads[w].tracks[threads[w].i],
                                 threads[w].out_dir, fs, e1, e2)
         IN  /\ fs' = r.fs
             /\ threads' = [threads EXCEPT
                    ![w].res = [kind |-> r.kind, path |-> r.path,
                              engines |-> r.engines],
                    ![w].pc = IF r.kind = "ok" THEN "L261" ELSE "L270"]
    /\ UNCHANGED <<jobs, recs, cancelAt>>

\* lines 261-267: job["files"].append({...})
WorkerAppendFile(w) ==
    /\ threads[w].pc = "L261"
    /\ recs' = [recs EXCEPT ![threads[w].job].files =
                    Append(@, FileEntry(threads[w].tracks[threads[w].i],
                                        threads[w].res.path))]
    /\ threads' = [threads EXCEPT ![w].res = NoRes, ![w].pc = "L271"]
    /\ UNCHANGED <<jobs, fs, cancelAt>>

\* lines 268-270: except Exception: job["failed"].append({...})
WorkerAppendFailed(w) ==
    /\ threads[w].pc = "L270"
    /\ recs' = [recs EXCEPT ![threads[w].job].failed =
                    Append(@, FailedEntry(threads[w].tracks[threads[w].i]))]
    /\ threads' = [threads EXCEPT ![w].res = NoRes, ![w].pc = "L271"]
    /\ UNCHANGED <<jobs, fs, cancelAt>>

\* The value line 271 stores: i + 1 for the code's zero-based i, which is
\* the number of tracks taken so far.
DoneAhead(taken) == taken + 1

DoneAfter(taken) == taken

\* line 271: job["done"] = i + 1
WorkerDone(w) ==
    /\ threads[w].pc = "L271"
    /\ recs' = [recs EXCEPT ![threads[w].job].done = DoneAfter(threads[w].i)]
    /\ threads' = SetPc(w, "L256")
    /\ UNCHANGED <<jobs, fs, cancelAt>>

\* line 272: job["status"] = "done"
WorkerStatus(w) ==
    /\ threads[w].pc = "L272"
    /\ recs' = [recs EXCEPT ![threads[w].job].status = "done"]
    /\ threads' = SetPc(w, "L273")
    /\ UNCHANGED <<jobs, fs, cancelAt>>

\* line 273: job["currentTrack"] = ""
WorkerClear(w) ==
    /\ threads[w].pc = "L273"
    /\ recs' = [recs EXCEPT ![threads[w].job].currentTrack = <<>>]
    /\ threads' = SetPc(w, "end")
    /\ UNCHANGED <<jobs, fs, cancelAt>>

\* Any step of thread w.
_worker(w) ==
    \/ WorkerBind(w)
    \/ WorkerTotal(w)
    \/ WorkerFor(w)
    \/ WorkerCheckCancel(w)
    \/ WorkerCurrent(w)
    \/ WorkerFetch(w)
    \/ WorkerAppendFile(w)
    \/ WorkerAppendFailed(w)
    \/ WorkerDone(w)
    \/ WorkerStatus(w)
    \/ WorkerClear(w)

\* ---------------------------------------------------------------- handlers
\* What a handler returns: the HTTP status and what of the body the model
\* keeps.  A response is a function of the state the handler runs in.
Reply(code, body) == [code |-> code, body |-> body]

\* download() going on to line 309 although get_tracks raised.
ResolverErrorIgnored(url, r) ==
    IF Strip(url) = <<>> THEN Reply(400, "Missing url")
    ELSE Reply(0, "")

\* POST /download, lines 302-307: what the request returns before any job
\* is created, for a url and an outcome r of get_tracks; code 0 stands for
\* going on to line 309.
download_error(url, r) ==
    IF Strip(url) = <<>> THEN Reply(400, "Missing url")
    ELSE IF r.raise THEN Reply(500, "error")
    ELSE Reply(0, "")

\* POST /download, lines 302-303: url missing or blank after strip()
DownloadMissingUrl ==
    /\ \E url \in Urls : download_error(url, [raise |-> FALSE]).code = 400
    /\ UNCHANGED vars

\* POST /download, lines 304-307: get_tracks raised
DownloadResolveError ==
    /\ \E url \in Urls :
         \E r \in get_tracks(Strip(url)) : download_error(url, r).code = 500
    /\ UNCHANGED vars

\* POST /download, lines 309-317: the identifier is the first 8 hex digits
\* of a random uuid4, any value of the identifier space; the new dict is
\* stored under it and the worker thread is started.
DownloadCreate ==
    /\ Len(recs) < MaxJobs
    /\ \E url \in Urls :
         \E r \in get_tracks(Strip(url)), job_id \in JobIds :
              /\ download_error(url, r).code = 0
              /\ recs' = Append(recs, NewJob(r.name, r.tracks))
              /\ jobs' = [jobs EXCEPT ![job_id] = Len(recs) + 1]
              /\ threads' = Append(threads, NewThread(job_id, r.tracks, OutDir(r.name)))
              /\ cancelAt' = Append(cancelAt, NoCancel)
    /\ UNCHANGED fs

download ==
    \/ DownloadMissingUrl
    \/ DownloadResolveError
    \/ DownloadCreate

\* GET /status/<job_id>, lines 319-323: jsonify(job) serialises the whole
\* dict in one step.
status_response(job_id) ==
    IF jobs[job_id] = 0 THEN Reply(404, "Not found")
    ELSE Reply(200, recs[jobs[job_id]])

status(job_id) ==
    /\ status_response(job_id).code \in {200, 404}
    /\ UNCHANGED vars

RECURSIVE Basename(_)
\* Path(p).name: what follows the last "/"
Basename(p) ==
    IF \E k \in 1..Len(p) : p[k] = "/"
    THEN Basename(Tail(p))
    ELSE p

RECURSIVE ZipNames(_, _)
\* lines 342-344: for f in files: if p.exists(): zf.write(p, p.name)
ZipNames(files, disk) ==
    IF files = <<>> THEN <<>>
    ELSE (IF Head(files).path \in disk THEN <<Basename(Head(files).path)>> ELSE <<>>)
         \o ZipNames(Tail(files), disk)

ZipWithoutStatusCheck(job_id) ==
    IF jobs[job_id] = 0 THEN Reply(404, "Not found")
    ELSE LET job == recs[jobs[job_id]]
         IN  IF job.files = <<>> THEN Reply(404, "No files")
             ELSE Reply(200, ZipNames(job.files, fs))

\* GET /download-zip/<job_id>, lines 332-351: an error, or the bundle (the
\* names of its members).
download_zip_response(job_id) ==
    IF jobs[job_id] = 0 THEN Reply(404, "Not found")
    ELSE LET job == recs[jobs[job_id]]
         IN  IF job.status # "done" THEN Reply(400, "Job not done yet")
             ELSE IF job.files = <<>> THEN Reply(404, "No files")
             ELSE Reply(200, ZipNames(job.files, fs))

download_zip(job_id) ==
    /\ download_zip_response(job_id).code \in {200, 400, 404}
    /\ UNCHANGED vars

\* Entries of a job dict.
Entries(job) == Len(job.files) + Len(job.failed)

\* DELETE /job/<job_id>, lines 353-358
cancel_response(job_id) ==
    IF jobs[job_id] = 0 THEN Reply(404, "Not found")
    ELSE Reply(200, "cancelled")

\* A cancel request that flips the flag instead of setting it.
CancelToggles(job_id) ==
    /\ IF cancel_response(job_id).code = 404
       THEN UNCHANGED <<recs, cancelAt>>
       ELSE LET r == jobs[job_id]
            IN  /\ recs' = [recs EXCEPT ![r].cancelled = ~@]
                /\ cancelAt' =
                     IF recs[r].cancelled THEN cancelAt
                     ELSE [cancelAt EXCEPT ![r] =
                             [begun |-> threads[r].i, entries |-> Entries(recs[r])]]
    /\ UNCHANGED <<jobs, threads, fs>>

\* cancelAt remembers, for the first cancel of a dict, how many tracks its
\* worker had taken from the list (line 256) and how many entries it held.
cancel(job_id) ==
    /\ IF cancel_response(job_id).code = 404
       THEN UNCHANGED <<recs, cancelAt>>
       ELSE LET r == jobs[job_id]
            IN  /\ recs' = [recs EXCEPT ![r].cancelled = TRUE]
                /\ cancelAt' =
                     IF recs[r].cancelled THEN cancelAt
                     ELSE [cancelAt EXCEPT ![r] =
                             [begun |-> threads[r].i, entries |-> Entries(recs[r])]]
    /\ UNCHANGED <<jobs, threads, fs>>

\* ---------------------------------------------------------------- system
Next ==
    \/ download
    \/ \E job_id \in JobIds : status(job_id)
    \/ \E job_id \in JobIds : download_zip(job_id)
    \/ \E job_id \in JobIds : cancel(job_id)
    \/ \E w \in 1..Len(threads) : WorkerBind(w)
    \/ \E w \in 1..Len(threads) : WorkerTotal(w)
    \/ \E w \in 1..Len(threads) : WorkerFor(w)
    \/ \E w \in 1..Len(threads) : WorkerCheckCancel(w)
    \/ \E w \in 1..Len(threads) : WorkerCurrent(w)
    \/ \E w \in 1..Len(threads) : WorkerFetch(w)
    \/ \E w \in 1..Len(threads) : WorkerAppendFile(w)
    \/ \E w \in 1..Len(threads) : WorkerAppendFailed(w)
    \/ \E w \in 1..Len(threads) : WorkerDone(w)
    \/ \E w \in 1..Len(threads) : WorkerStatus(w)
    \/ \E w \in 1..Len(threads) : WorkerClear(w)

Spec == Init /\ [][Next]_vars

\* Outside the program: somebody removes a downloaded file from the disk.
RemoveFile ==
    /\ \E p \in fs : fs' = fs \ {p}
    /\ UNCHANGED <<jobs, recs, threads, cancelAt>>

\* The program together with file removals by its environment.
SpecDisk == Init /\ [][Next \/ RemoveFile]_vars

\* Every started thread keeps being scheduled, and download_track returns.
FairSpec == Spec /\ \A w \in 1..MaxJobs : WF_vars(w <= Len(threads) /\ _worker(w))

\* ---------------------------------------------------------------- claims
\* Identifiers with an entry in the jobs table, and the dict each resolves to.
Table == {id \in JobIds : jobs[id] # 0}

JobOf(id) == recs[jobs[id]]

\* Some POST /download drew an identifier that was already in the table.
Reissued == Cardinality(Table) < Len(recs)

\* The worker is past the cancel check of a track and has not yet stored
\* done for it.
InIteration(w) == threads[w].pc \in {"L258", "L260", "L261", "L270", "L271"}

\* C1: every snapshot a status poll can return has done equal to
\* len(files) + len(failed), and done at most total.
C1_PolledCountsConsistent ==
    \A id \in Table :
        LET job == status_response(id).body
        IN  job.done = Entries(job) /\ job.done <= job.total

\* C2: a status poll that returns done = k returns files and failed lists
\* holding at least k entries together (done never runs ahead of the lists).
C2_DoneNeverAhead ==
    \A id \in JobIds :
        status_response(id).code = 200 =>
            status_response(id).body.done <= Entries(status_response(id).body)

\* C2 witness: a poll sees a job whose worker has stored done for one track
\* and has appended, but not yet counted, the next.
C2_Witness ==
    \E id \in Table :
        LET job == status_response(id).body
        IN  job.done >= 1 /\ Entries(job) = job.done + 1

\* C3: once the cancelled flag of a job is set, its worker attempts no
\* track taken from the list after that moment, at most one further entry
\* is added, and the job ends with done < total when tracks remained.
C3_CancelStopsWorker ==
    \A r \in 1..Len(recs) :
        cancelAt[r].begun >= 0 =>
            /\ Entries(recs[r]) <= cancelAt[r].entries + 1
            /\ (threads[r].i > cancelAt[r].begun => ~InIteration(r))
            /\ (recs[r].status = "done" /\ cancelAt[r].begun < recs[r].total
                    => recs[r].done < recs[r].total)

\* C3, side result: the statement of C3 holds in every state reached without drawing an
\* identifier twice.
C3_HoldsWithDistinctIds == Reissued \/ C3_CancelStopsWorker

\* C4: a job cancelled before its worker took the first track keeps
\* files = [], failed = [] and done = 0 ever after, and reaches status done.
C4_CancelBeforeStart ==
    /\ [](\A r \in 1..MaxJobs :
            (r <= Len(recs) /\ cancelAt[r].begun = 0) =>
                recs[r].files = <<>> /\ recs[r].failed = <<>> /\ recs[r].done = 0)
    /\ \A r \in 1..MaxJobs :
            (r <= Len(recs) /\ cancelAt[r].begun = 0)
                ~> (r <= Len(recs) /\ recs[r].status = "done")

\* C4, side result: the statement of C4 holds on every behaviour that never draws an
\* identifier twice.
C4_HoldsWithDistinctIds ==
    /\ [](Reissued \/ \A r \in 1..MaxJobs :
            (r <= Len(recs) /\ cancelAt[r].begun = 0) =>
                recs[r].files = <<>> /\ recs[r].failed = <<>> /\ recs[r].done = 0)
    /\ \A r \in 1..MaxJobs :
            (r <= Len(recs) /\ cancelAt[r].begun = 0)
                ~> (Reissued \/ (r <= Len(recs) /\ recs[r].status = "done"))

\* C5: a job that is done, was never cancelled and has no successful track
\* has one failed entry per track: fetch failures are recorded and the
\* worker goes on to the end of the list.
C5_AllFailedJobCompletes ==
    \A id \in Table :
        LET job == JobOf(id)
        IN  (job.status = "done" /\ ~job.cancelled /\ job.files = <<>>) =>
                Len(job.failed) = job.total /\ job.done = job.total

\* C5, side result: the statement of C5 holds in every state reached without drawing an
\* identifier twice.
C5_HoldsWithDistinctIds == Reissued \/ C5_AllFailedJobCompletes

\* C6: a job with status done and done < total has its cancelled flag set;
\* a job that was not cancelled finishes with done = total and
\* len(files) + len(failed) = total.
C6_EarlyEndOnlyByCancel ==
    \A id \in Table :
        LET job == JobOf(id)
        IN  job.status = "done" =>
                /\ (job.done < job.total => job.cancelled)
                /\ (~job.cancelled => job.done = job.total /\ Entries(job) = job.total)

\* C6, side result: the statement of C6 holds in every state reached without drawing an
\* identifier twice.
C6_HoldsWithDistinctIds == Reissued \/ C6_EarlyEndOnlyByCancel

\* C7: once a poll of a job returns status done, every later poll of that
\* job returns the same done, files and failed.
C7_DonePollsStable ==
    [][\A id \in JobIds :
          (status_response(id).code = 200 /\ status_response(id).body.status = "done") =>
              /\ status_response(id)'.body.done = status_response(id).body.done
              /\ status_response(id)'.body.files = status_response(id).body.files
              /\ status_response(id)'.body.failed = status_response(id).body.failed]_vars

\* C7, side result: the statement of C7 holds on every step that leaves the identifiers
\* drawn so far distinct.
C7_HoldsWithDistinctIds ==
    [][Reissued' \/ \A id \in JobIds :
          (status_response(id).code = 200 /\ status_response(id).body.status = "done") =>
              /\ status_response(id)'.body.done = status_response(id).body.done
              /\ status_response(id)'.body.files = status_response(id).body.files
              /\ status_response(id)'.body.failed = status_response(id).body.failed]_vars

\* C8: once a job's status is done, no field of its dict is written again.
C8_DoneRecordFrozen ==
    [][\A r \in 1..Len(recs) : recs[r].status = "done" => recs'[r] = recs[r]]_vars

\* C9: every job creation issues an identifier no earlier creation issued,
\* so no entry of the jobs table is ever replaced.
C9_IdentifiersNeverReissued ==
    \A v, w \in 1..Len(threads) : v # w => threads[v].job_id # threads[w].job_id

\* C10: an archive request returns a bundle exactly when the identifier is
\* known, the job is done and its files list is non-empty; otherwise it
\* returns a 400 or 404 error and no bundle; and it changes no job dict.
C10_ArchiveOnlyWhenDoneWithFiles ==
    /\ [](\A id \in JobIds :
            LET z == download_zip_response(id)
                ready == /\ jobs[id] # 0
                         /\ JobOf(id).status = "done"
                         /\ JobOf(id).files # <<>>
            IN  /\ z.code = 200 <=> ready
                /\ z.code # 200 =>
                      /\ z.code \in {400, 404}
                      /\ z.body \in {"Not found", "Job not done yet", "No files"})
    /\ [][\A id \in JobIds : download_zip(id) => recs' = recs /\ jobs' = jobs]_vars

\* C10 witness: an archive request for a done job returns a bundle with a
\* member, while another job is still running and is refused.
C10_Witness ==
    \E id, other \in Table :
        /\ download_zip_response(id).code = 200
        /\ download_zip_response(id).body # <<>>
        /\ download_zip_response(other).code = 400

\* C11: an archive request for a done job whose files list is non-empty
\* but none of whose recorded paths exists on disk returns an error, not a
\* bundle.
C11_ArchiveFailsWithoutFilesOnDisk ==
    \A id \in Table :
        LET job == JobOf(id)
        IN  (/\ job.status = "done"
             /\ job.files # <<>>
             /\ \A k \in 1..Len(job.files) : job.files[k].path \notin fs)
                => download_zip_response(id).code # 200

\* Worker w takes its download_track step (line 260) in this transition.
Fetches(w) == threads[w].pc = "L260" /\ threads'[w].pc # "L260"

\* The track worker w is at, and the path download_track computes for it.
TrackOf(w) == threads[w].tracks[threads[w].i]
PathOf(w) == Mp3Path(TrackOf(w), threads[w].out_dir)

\* An earlier fetch of w's track into w's directory is on record, as an
\* entry of either list (FetchedBefore) or as a produced file
\* (ProducedBefore).
FetchedBefore(w) ==
    \E r \in 1..Len(recs) :
        /\ OutDir(recs[r].name) = threads[w].out_dir
        /\ \/ \E k \in 1..Len(recs[r].files) :
                  recs[r].files[k].title = TrackOf(w).title
           \/ \E k \in 1..Len(recs[r].failed) :
                  recs[r].failed[k].title = TrackOf(w).title
ProducedBefore(w) ==
    \E r \in 1..Len(recs) : \E k \in 1..Len(recs[r].files) :
        /\ recs[r].files[k].title = TrackOf(w).title
        /\ recs[r].files[k].path = PathOf(w)

\* The fetch step of w returned the existing file: no engine was invoked
\* and the disk is as it was.
ReturnsExisting(w) ==
    /\ threads'[w].res.kind = "ok"
    /\ threads'[w].res.path = PathOf(w)
    /\ threads'[w].res.engines = <<>>
    /\ fs' = fs

\* C12 as stated: a fetch whose path exists returns it without invoking an
\* engine and without touching the file, and the second of two fetches of
\* the same track into the same directory invokes no engine.
C12_SecondFetchInvokesNoEngine ==
    [][\A w \in 1..Len(threads) :
          Fetches(w) => /\ PathOf(w) \in fs => ReturnsExisting(w)
                        /\ FetchedBefore(w) => threads'[w].res.engines = <<>>
      ]_vars

\* C12, amended: a fetch whose path exists returns it without invoking an
\* engine and without touching the file, and a fetch of a track that an
\* earlier fetch into the same directory produced invokes no engine.
C12_ExistingFileIsReturned ==
    [][\A w \in 1..Len(threads) :
          Fetches(w) => /\ PathOf(w) \in fs => ReturnsExisting(w)
                        /\ ProducedBefore(w) => ReturnsExisting(w)
      ]_vars

\* A fetch of a track produced before has just returned the existing file.
C12_Witness ==
    \E w \in 1..Len(threads) :
        /\ threads[w].pc = "L261"
        /\ threads[w].res.engines = <<>>
        /\ ProducedBefore(w)

\* The titles recorded in files and failed, merged, are the titles of the
\* first n tracks, each taken from exactly one list and both lists in the
\* order of the tracks.
RECURSIVE IsMerge(_, _, _, _)
IsMerge(files, failed, tracks, n) ==
    IF n = 0 THEN files = <<>> /\ failed = <<>>
    ELSE \/ /\ files # <<>>
            /\ files[Len(files)].title = tracks[n].title
            /\ IsMerge(SubSeq(files, 1, Len(files) - 1), failed, tracks, n - 1)
         \/ /\ failed # <<>>
            /\ failed[Len(failed)].title = tracks[n].title
            /\ IsMerge(files, SubSeq(failed, 1, Len(failed) - 1), tracks, n - 1)

\* The workers that are inside download_track for the record r.
InFlight(r) == {w \in 1..Len(threads) : threads[w].job = r /\ threads[w].pc = "L260"}

\* C13: in every job the tracks recorded in files and failed together are
\* the first len(files) + len(failed) tracks of its resolved list, each
\* once and in one list, each list in resolver order, and at most one
\* fetch of the job is in flight.
C13_TracksInResolverOrder ==
    \A id \in Table :
        LET job == JobOf(id)
            tracks == threads[jobs[id]].tracks
        IN  /\ Entries(job) <= Len(tracks)
            /\ IsMerge(job.files, job.failed, tracks, Entries(job))
            /\ Cardinality(InFlight(jobs[id])) <= 1

\* C13, side result: the statement of C13 holds in every state reached
\* without drawing an identifier twice.
C13_HoldsWithDistinctIds == Reissued \/ C13_TracksInResolverOrder

C14_EveryDictCompletes ==
    \A r \in 1..MaxJobs :
        (r <= Len(recs)) ~> (r <= Len(recs) /\ recs[r].status = "done")

Progress(r) ==
    <<recs[r].status, recs[r].total, recs[r].done, recs[r].files,
      recs[r].failed, recs[r].currentTrack>>

\* C15: status polls, cancel requests and archive requests change no
\* job's status, total, done, files, failed or currentTrack; a cancel
\* request changes only the cancelled flag of the job it names; a worker
\* writes only to the dict of the job it was started for.
C15_WritesStayInOwnRecord ==
    [][/\ \A id \in JobIds :
            (status(id) \/ download_zip(id) \/ cancel(id)) =>
                \A r \in 1..Len(recs) : Progress(r)' = Progress(r)
       /\ \A id \in JobIds :
            cancel(id) =>
                /\ \A r \in 1..Len(recs) : r # jobs[id] => recs'[r] = recs[r]
                /\ jobs[id] # 0 =>
                        recs'[jobs[id]] = [recs[jobs[id]] EXCEPT !.cancelled = TRUE]
                /\ UNCHANGED <<jobs, threads, fs>>
       /\ \A w \in 1..Len(threads) :
            _worker(w) =>
                /\ \A r \in 1..Len(recs) : r # w => recs'[r] = recs[r]
                /\ jobs' = jobs
      ]_vars

\* C15, side result: the statement of C15 holds on every step taken
\* without an identifier having been drawn twice.
C15_HoldsWithDistinctIds ==
    [][Reissued \/
       /\ \A id \in JobIds :
            (status(id) \/ download_zip(id) \/ cancel(id)) =>
                \A r \in 1..Len(recs) : Progress(r)' = Progress(r)
       /\ \A id \in JobIds :
            cancel(id) =>
                /\ \A r \in 1..Len(recs) : r # jobs[id] => recs'[r] = recs[r]
                /\ jobs[id] # 0 =>
                        recs'[jobs[id]] = [recs[jobs[id]] EXCEPT !.cancelled = TRUE]
                /\ UNCHANGED <<jobs, threads, fs>>
       /\ \A w \in 1..Len(threads) :
            _worker(w) =>
                /\ \A r \in 1..Len(recs) : r # w => recs'[r] = recs[r]
                /\ jobs' = jobs
      ]_vars

\* C16: no step clears the cancelled flag of a dict; a cancel of a job
\* that is already cancelled changes nothing and is answered as the first
\* was; a cancel of an identifier that is not in the table is answered
\* 404 and changes no dict.
C16_CancelSticksAndRepeats ==
    [][/\ \A r \in 1..Len(recs) : recs[r].cancelled => recs'[r].cancelled
       /\ \A id \in JobIds :
            cancel(id) =>
                /\ jobs[id] # 0 =>
                        /\ cancel_response(id) = Reply(200, "cancelled")
                        /\ cancel_response(id)' = cancel_response(id)
                        /\ JobOf(id).cancelled => recs' = recs
                /\ jobs[id] = 0 =>
                        /\ cancel_response(id) = Reply(404, "Not found")
                        /\ recs' = recs
      ]_vars

\* A job cancelled before its worker finished is done with the flag still
\* set, while another identifier is not in the table.
C16_Witness ==
    /\ \E id \in Table : /\ JobOf(id).cancelled
                          /\ JobOf(id).status = "done"
                          /\ cancelAt[jobs[id]].entries < Entries(JobOf(id))
    /\ JobIds \ Table # {}

\* C17: a POST /download whose url is missing or blank, or whose
\* resolution raises (unrecognised URL or resolver error), is answered
\* with an error and leaves the jobs table, the dicts and the threads as
\* they were; an entry, a dict or a thread appears only with a resolution
\* that returned.
C17_FailedRequestCreatesNothing ==
    /\ [](\A url \in Urls : \A r \in get_tracks(Strip(url)) :
            /\ Strip(url) = <<>> => download_error(url, r) = Reply(400, "Missing url")
            /\ (Strip(url) # <<>> /\ r.raise) => download_error(url, r).code = 500)
    /\ [][/\ (DownloadMissingUrl \/ DownloadResolveError) =>
                UNCHANGED <<jobs, recs, threads>>
          /\ (jobs' # jobs \/ Len(recs') # Len(recs) \/ Len(threads') # Len(threads)) =>
                \E url \in Urls : \E r \in get_tracks(Strip(url)) :
                    /\ Strip(url) # <<>>
                    /\ ~r.raise
                    /\ recs' = Append(recs, NewJob(r.name, r.tracks))
                    /\ Len(threads') = Len(threads) + 1
      ]_vars

\* With a job in the table, a blank url and an unrecognised URL are both
\* there to be posted, and room is left for a job they might create.
C17_Witness ==
    /\ Table # {}
    /\ Len(recs) < MaxJobs
    /\ \E url \in Urls : download_error(url, [raise |-> FALSE]).code = 400
    /\ \E url \in Urls :
         /\ detect_type(Strip(url)) = "ValueError"
         /\ \A r \in get_tracks(Strip(url)) : download_error(url, r).code = 500

\* C18: a dict enters the table with status running, done 0, empty files
\* and failed and total equal to the number of resolved tracks; afterwards
\* the total of a job never changes and its status never goes from done
\* back to running.
C18_StartsRunningTotalFixed ==
    [][/\ \A id \in JobIds :
            jobs'[id] # jobs[id] =>
                /\ JobOf(id)'.status = "running"
                /\ JobOf(id)'.done = 0
                /\ JobOf(id)'.files = <<>>
                /\ JobOf(id)'.failed = <<>>
                /\ JobOf(id)'.total = Len(threads'[jobs'[id]].tracks)
       /\ \A id \in Table :
            /\ JobOf(id)'.total = JobOf(id).total
            /\ JobOf(id).status = "done" => JobOf(id)'.status = "done"
      ]_vars

\* C18, side result: the statement of C18 holds on every step that leaves
\* the identifiers drawn so far distinct.
C18_HoldsWithDistinctIds ==
    [][Reissued' \/
       /\ \A id \in JobIds :
            jobs'[id] # jobs[id] =>
                /\ JobOf(id)'.status = "running"
                /\ JobOf(id)'.done = 0
                /\ JobOf(id)'.files = <<>>
                /\ JobOf(id)'.failed = <<>>
                /\ JobOf(id)'.total = Len(threads'[jobs'[id]].tracks)
       /\ \A id \in Table :
            /\ JobOf(id)'.total = JobOf(id).total
            /\ JobOf(id).status = "done" => JobOf(id)'.status = "done"
      ]_vars

\* The same of the dicts instead of the table entries.
C18_OfDicts ==
    [][\A r \in 1..Len(recs) :
            /\ recs'[r].total = recs[r].total
            /\ recs[r].status = "done" => recs'[r].status = "done"
      ]_vars

BeforeDone(r) == {w \in 1..Len(threads) : threads[w].job = r /\ threads[w].pc = "L271"}

\* C20: len(files) + len(failed) is done or done + 1, and it is done + 1
\* exactly while the job's worker stands between the append of a track's
\* entry and the assignment of done for that track.
C20_EntriesAheadOnlyBeforeDone ==
    \A id \in Table :
        LET job == JobOf(id)
        IN  /\ Entries(job) \in {job.done, job.done + 1}
            /\ Entries(job) = job.done + 1 <=> BeforeDone(jobs[id]) # {}

\* C20, side result: the statement of C20 holds in every state reached
\* without drawing an identifier twice.
C20_HoldsWithDistinctIds == Reissued \/ C20_EntriesAheadOnlyBeforeDone

====
